---- MODULE Spec2Model ----
(***************************************************************************)
(* Lanczos band-pass filter (src/lanczosbp.py).                            *)
(*                                                                         *)
(* low_pass_weights builds the weights of a low pass Lanczos filter; main  *)
(* builds two weight vectors, applies each as a centred rolling dot        *)
(* product along time, takes the difference and reduces it to a variance   *)
(* per spatial cell.                                                       *)
(*                                                                         *)
(* Numbers.  float64 values are modelled in fixed point: the integer x     *)
(* stands for x / Scale.  sin is Bhaskara's rational approximation, pi is  *)
(* PiNum / PiDen.  NaN is a value of its own that every arithmetic         *)
(* operation propagates.  A cutoff is the rational num / den.              *)
(***************************************************************************)
EXTENDS Integers, Sequences, FiniteSets

\* ------------------------------------------------------------- bounds
MaxWindow == 5
MaxT == 6
NCells == 2
NSeeds == 3
Scale == 100

PiNum == 355
PiDen == 113

\* ------------------------------------------------------------- numbers
NaN == [nan |-> TRUE, v |-> 0]
Num(x) == [nan |-> FALSE, v |-> x]

Max(a, b) == IF a >= b THEN a ELSE b
Min(a, b) == IF a <= b THEN a ELSE b

\* num / den as a fixed-point number
Fix(num, den) == (num * Scale) \div den

\* np.sin(np.pi * a / b), b > 0, as a rational <<num, den>>
SinPi(a, b) ==
    LET r == a % (2 * b)
        x == IF r <= b THEN r ELSE r - b
        sign == IF r <= b THEN 1 ELSE 0 - 1
    IN  <<sign * 16 * x * (b - x), 5 * b * b - 4 * x * (b - x)>>

RECURSIVE SumTo(_, _)
SumTo(f, n) == IF n = 0 THEN 0 ELSE f[n] + SumTo(f, n - 1)

\* ------------------------------------------------------------- python slices
\* the indices (0-based) that a[start:stop:step] selects in an array of
\* length len, for step = 1 or step = -1
SliceIndices(start, stop, step, len) ==
    IF step > 0
    THEN LET lo == IF start < 0 THEN Max(start + len, 0) ELSE Min(start, len)
             hi == IF stop < 0 THEN Max(stop + len, 0) ELSE Min(stop, len)
         IN  [i \in 1..Max(hi - lo, 0) |-> lo + i - 1]
    ELSE LET hi == IF start < 0 THEN Max(start + len, 0 - 1) ELSE Min(start, len - 1)
             lo == IF stop < 0 THEN Max(stop + len, 0 - 1) ELSE Min(stop, len - 1)
         IN  [i \in 1..Max(hi - lo, 0) |-> hi - i + 1]

\* a[start:stop:step]
GetSlice(a, start, stop, step) ==
    LET idx == SliceIndices(start, stop, step, Len(a))
    IN  [i \in 1..Len(idx) |-> a[idx[i] + 1]]

\* a[start:stop:step] = vals ; the shapes must agree
SliceFits(a, start, stop, step, vals) ==
    Len(SliceIndices(start, stop, step, Len(a))) = Len(vals)

SetSlice(a, start, stop, step, vals) ==
    LET idx == SliceIndices(start, stop, step, Len(a))
    IN  [p \in 1..Len(a) |->
            IF \E i \in 1..Len(idx) : idx[i] + 1 = p
            THEN vals[CHOOSE i \in 1..Len(idx) : idx[i] + 1 = p]
            ELSE a[p]]

\* ------------------------------------------------------------- low_pass_weights
\* the order taken from window // 2, not (window - 1) // 2
OrderOfHalfWindow(window) == (window \div 2) + 1

OrderOf(window) == ((window - 1) \div 2) + 1

NwtsOf(order) == 2 * order + 1

\* w = np.zeros([nwts]); n = nwts // 2; w[n] = 2 * cutoff
CentreWeight(cutoff) == Fix(2 * cutoff.num, cutoff.den)

\* the centre weight written one entry too low
ZerosWithCentreLow(nwts, cutoff) ==
    LET n == nwts \div 2
    IN  [p \in 1..nwts |-> IF p = n THEN CentreWeight(cutoff) ELSE 0]

ZerosWithCentre(nwts, cutoff) ==
    LET n == nwts \div 2
    IN  [p \in 1..nwts |-> IF p = n + 1 THEN CentreWeight(cutoff) ELSE 0]

\* k = np.arange(1., n)
Arange1(n) == [i \in 1..Max(n - 1, 0) |-> i]

\* sigma = np.sin(np.pi * k / n) * n / (np.pi * k)
Sigma(k, n) ==
    [i \in 1..Len(k) |->
        LET s == SinPi(k[i], n)
        IN  Fix(s[1] * n * PiDen, s[2] * PiNum * k[i])]

\* firstfactor = np.sin(2. * np.pi * cutoff * k) / (np.pi * k)
FirstFactor(k, cutoff) ==
    [i \in 1..Len(k) |->
        LET s == SinPi(2 * cutoff.num * k[i], cutoff.den)
        IN  Fix(s[1] * PiDen, s[2] * PiNum * k[i])]

\* firstfactor * sigma
Product(a, b) == [i \in 1..Len(a) |-> (a[i] * b[i]) \div Scale]

\* the left side filled in ascending order: w[1:n] = firstfactor * sigma
SetLeftSideAscending(w, n, vals) == SetSlice(w, 1, n, 1, vals)

\* w[n-1:0:-1] = firstfactor * sigma
SetLeftSide(w, n, vals) == SetSlice(w, n - 1, 0, 0 - 1, vals)

\* w[n+1:-1] = firstfactor * sigma
SetRightSide(w, n, vals) == SetSlice(w, n + 1, 0 - 1, 1, vals)

\* only the first entry dropped: return w[1:]
ReturnSliceKeepsLast(w) == GetSlice(w, 1, Len(w), 1)

\* return w[1:-1]
ReturnSlice(w) == GetSlice(w, 1, 0 - 1, 1)

\* the call low_pass_weights(window, cutoff): what it raises, what it returns
low_pass_weights(window, cutoff) ==
    LET order == OrderOf(window)
        nwts == NwtsOf(order)
    IN  IF nwts < 0
        THEN [raised |-> "ValueError", w |-> <<>>]
        ELSE LET n == nwts \div 2
                 w0 == ZerosWithCentre(nwts, cutoff)
                 k == Arange1(n)
                 vals == Product(FirstFactor(k, cutoff), Sigma(k, n))
             IN  IF ~SliceFits(w0, n - 1, 0, 0 - 1, vals)
                    \/ ~SliceFits(w0, n + 1, 0 - 1, 1, vals)
                 THEN [raised |-> "ValueError", w |-> <<>>]
                 ELSE [raised |-> "none",
                       w |-> ReturnSlice(SetRightSide(SetLeftSide(w0, n, vals), n, vals))]

\* ------------------------------------------------------------- rolling dot product
\* a rolling call that also refuses a window longer than the time axis
RollingAcceptsWithin(L, T) == L > 0 /\ L <= T

\* rolling(time = L, ...): xarray refuses a window that is not positive
RollingAccepts(L, T) == L > 0

\* time = window
RollingLengthWindow(weights, window) == window

\* the time = argument of the rolling call: len(hfw), len(lfw)
RollingLength(weights, window) == Len(weights)

\* center = False: all the padding before the series
PadsTrailing(L) == <<L - 1, 0>>

\* center = True: NaN padding before and after the series
Pads(L) == <<L \div 2, L - 1 - (L \div 2)>>

Padded(series, L) ==
    [p \in 1..(Pads(L)[1] + Len(series) + Pads(L)[2]) |->
        IF p <= Pads(L)[1] \/ p > Pads(L)[1] + Len(series)
        THEN NaN
        ELSE series[p - Pads(L)[1]]]

\* .construct('window') on one cell: for every time step the L padded values
\* of its window
Construct(series, L) ==
    [t \in 1..Len(series) |-> [j \in 1..L |-> Padded(series, L)[t + j - 1]]]

\* .dot(weights) along the window dimension; the two sizes must agree
DotFits(row, weights) == Len(row) = Len(weights)

Dot(row, weights) ==
    IF \E j \in 1..Len(row) : row[j].nan
    THEN NaN
    ELSE Num(SumTo([j \in 1..Len(row) |-> row[j].v * weights[j]], Len(row)))

\* a difference that takes a missing operand as 0
MinusFillZero(a, b) ==
    Num((IF a.nan THEN 0 ELSE a.v) - (IF b.nan THEN 0 ELSE b.v))

\* lowpass_hf - lowpass_lf, element by element
Minus(a, b) == IF a.nan \/ b.nan THEN NaN ELSE Num(a.v - b.v)

\* ------------------------------------------------------------- variance
\* var(dim = 'time', skipna = True): the default ddof
Ddof == 0

NotNaN(x) == ~x.nan

Valid(series) == SelectSeq(series, NotNaN)

\* the variance with ddof = 1
VarSkipnaUnbiased(series) ==
    LET xs == Valid(series)
        N == Len(xs)
        S == SumTo([i \in 1..N |-> xs[i].v], N)
    IN  IF N - 1 <= 0
        THEN [nan |-> TRUE, num |-> 0, den |-> 1]
        ELSE [nan |-> FALSE,
              num |-> SumTo([i \in 1..N |-> (N * xs[i].v - S) * (N * xs[i].v - S)], N),
              den |-> N * N * (N - 1)]

\* the variance of one cell as the fraction num / den, or NaN
VarSkipna(series) ==
    LET xs == Valid(series)
        N == Len(xs)
        S == SumTo([i \in 1..N |-> xs[i].v], N)
    IN  IF N - Ddof <= 0
        THEN [nan |-> TRUE, num |-> 0, den |-> 1]
        ELSE [nan |-> FALSE,
              num |-> SumTo([i \in 1..N |-> (N * xs[i].v - S) * (N * xs[i].v - S)], N),
              den |-> N * N * (N - Ddof)]

\* ------------------------------------------------------------- state
VARIABLES pc, window_hf, window_lf, cutoff_hf, cutoff_lf, hfw, lfw, raised,
          daily_data, windows_hf, windows_lf, lowpass_hf, lowpass_lf, bandpass, dvar

vars == <<pc, window_hf, window_lf, cutoff_hf, cutoff_lf, hfw, lfw, raised,
          daily_data, windows_hf, windows_lf, lowpass_hf, lowpass_lf, bandpass, dvar>>

Cells == 1..NCells

\* the time series of one cell of the input grid
GridValue(seed, t) == ((seed * seed * t + 2 * seed + t * t) % 5) - 2

GridSeries(seed, T) == [t \in 1..T |-> Num(GridValue(seed, t))]

Cutoffs ==
    {[num |-> 0, den |-> 1], [num |-> 1, den |-> 10], [num |-> 1, den |-> 4],
     [num |-> 1, den |-> 3], [num |-> 1, den |-> 2], [num |-> 3, den |-> 4],
     [num |-> 0 - 1, den |-> 10]}

NoGrid == [c \in Cells |-> <<>>]

NotYet ==
    /\ hfw = <<>>
    /\ lfw = <<>>
    /\ raised = "none"
    /\ windows_hf = NoGrid
    /\ windows_lf = NoGrid
    /\ lowpass_hf = NoGrid
    /\ lowpass_lf = NoGrid
    /\ bandpass = NoGrid
    /\ dvar = [c \in Cells |-> [nan |-> TRUE, num |-> 0, den |-> 1]]

\* main: the two filters and a daily grid
Init ==
    /\ pc = "line67"
    /\ window_hf \in 0..MaxWindow
    /\ window_lf \in 0..MaxWindow
    /\ cutoff_hf = [num |-> 1, den |-> 3]
    /\ cutoff_lf = [num |-> 1, den |-> 10]
    /\ \E T \in 1..MaxT : \E seed \in [Cells -> 1..NSeeds] :
           daily_data = [c \in Cells |-> GridSeries(seed[c], T)]
    /\ NotYet

\* one call of low_pass_weights, any window, any cutoff
InitWeights ==
    /\ pc = "line67"
    /\ window_hf \in (0 - 3)..MaxWindow
    /\ window_lf = window_hf
    /\ cutoff_hf \in Cutoffs
    /\ cutoff_lf = cutoff_hf
    /\ daily_data = NoGrid
    /\ NotYet

\* hfw = low_pass_weights(window, 1. / 3.)
Line67 ==
    /\ pc = "line67"
    /\ LET r == low_pass_weights(window_hf, cutoff_hf)
       IN  /\ hfw' = r.w
           /\ raised' = r.raised
           /\ pc' = IF r.raised = "none" THEN "line68" ELSE "raised"
    /\ UNCHANGED <<window_hf, window_lf, cutoff_hf, cutoff_lf, lfw, daily_data,
                   windows_hf, windows_lf, lowpass_hf, lowpass_lf, bandpass, dvar>>

\* lfw = low_pass_weights(window, 1. / 10.)
Line68 ==
    /\ pc = "line68"
    /\ LET r == low_pass_weights(window_lf, cutoff_lf)
       IN  /\ lfw' = r.w
           /\ raised' = r.raised
           /\ pc' = IF r.raised = "none" THEN "line87" ELSE "raised"
    /\ UNCHANGED <<window_hf, window_lf, cutoff_hf, cutoff_lf, hfw, daily_data,
                   windows_hf, windows_lf, lowpass_hf, lowpass_lf, bandpass, dvar>>

TimeExtent == Len(daily_data[1])

\* daily_data.rolling(time = L, center = True).construct('window').dot(weights)
RollingRaises(L, weights) ==
    \/ ~RollingAccepts(L, TimeExtent)
    \/ \E c \in Cells : \E t \in 1..TimeExtent :
           ~DotFits(Construct(daily_data[c], L)[t], weights)

RollingWindows(L) == [c \in Cells |-> Construct(daily_data[c], L)]

RollingDot(L, weights) ==
    [c \in Cells |-> [t \in 1..TimeExtent |-> Dot(Construct(daily_data[c], L)[t], weights)]]

\* lowpass_hf = daily_data.rolling(time = len(hfw), ...).construct('window').dot(weight_high)
Line87 ==
    /\ pc = "line87"
    /\ LET L == RollingLength(hfw, window_hf)
       IN  IF RollingRaises(L, hfw)
           THEN /\ raised' = "ValueError"
                /\ pc' = "raised"
                /\ UNCHANGED <<windows_hf, lowpass_hf>>
           ELSE /\ windows_hf' = RollingWindows(L)
                /\ lowpass_hf' = RollingDot(L, hfw)
                /\ pc' = "line88"
                /\ UNCHANGED raised
    /\ UNCHANGED <<window_hf, window_lf, cutoff_hf, cutoff_lf, hfw, lfw, daily_data,
                   windows_lf, lowpass_lf, bandpass, dvar>>

\* lowpass_lf = daily_data.rolling(time = len(lfw), ...).construct('window').dot(weight_low)
Line88 ==
    /\ pc = "line88"
    /\ LET L == RollingLength(lfw, window_lf)
       IN  IF RollingRaises(L, lfw)
           THEN /\ raised' = "ValueError"
                /\ pc' = "raised"
                /\ UNCHANGED <<windows_lf, lowpass_lf>>
           ELSE /\ windows_lf' = RollingWindows(L)
                /\ lowpass_lf' = RollingDot(L, lfw)
                /\ pc' = "line91"
                /\ UNCHANGED raised
    /\ UNCHANGED <<window_hf, window_lf, cutoff_hf, cutoff_lf, hfw, lfw, daily_data,
                   windows_hf, lowpass_hf, bandpass, dvar>>

\* bandpass = lowpass_hf - lowpass_lf
Line91 ==
    /\ pc = "line91"
    /\ bandpass' = [c \in Cells |->
                       [t \in 1..TimeExtent |-> Minus(lowpass_hf[c][t], lowpass_lf[c][t])]]
    /\ pc' = "line105"
    /\ UNCHANGED <<window_hf, window_lf, cutoff_hf, cutoff_lf, hfw, lfw, raised, daily_data,
                   windows_hf, windows_lf, lowpass_hf, lowpass_lf, dvar>>

\* dvar = xr.DataArray.var(bandpass, dim = 'time', skipna = True)
Line105 ==
    /\ pc = "line105"
    /\ dvar' = [c \in Cells |-> VarSkipna(bandpass[c])]
    /\ pc' = "done"
    /\ UNCHANGED <<window_hf, window_lf, cutoff_hf, cutoff_lf, hfw, lfw, raised, daily_data,
                   windows_hf, windows_lf, lowpass_hf, lowpass_lf, bandpass>>

Next == Line67 \/ Line68 \/ Line87 \/ Line88 \/ Line91 \/ Line105

Spec == Init /\ [][Next]_vars

SpecWeights == InitWeights /\ [][Line67]_vars

\* ------------------------------------------------------------- properties
After67 == {"line68", "line87", "line88", "line91", "line105", "done"}
After68 == {"line87", "line88", "line91", "line105", "done"}
After87 == {"line88", "line91", "line105", "done"}
After88 == {"line91", "line105", "done"}
After91 == {"line105", "done"}

\* t has at least h time steps on each side inside the time extent
FullWindowAt(t, h) == t - h >= 1 /\ t + h <= TimeExtent

\* the dot product of the Len(weights) grid values centred at t with weights
CentredDot(c, t, weights) ==
    LET L == Len(weights)
        h == L \div 2
    IN  Num(SumTo([j \in 1..L |-> daily_data[c][t - h + j - 1].v * weights[j]], L))

\* the number, the sum and the sum of squares of the values of a series that
\* are not missing
CountOf(series) == Cardinality({t \in 1..Len(series) : ~series[t].nan})

SumOf(series) ==
    SumTo([t \in 1..Len(series) |-> IF series[t].nan THEN 0 ELSE series[t].v], Len(series))

SumSqOf(series) ==
    SumTo([t \in 1..Len(series) |->
              IF series[t].nan THEN 0 ELSE series[t].v * series[t].v], Len(series))

\* C1: for every window >= 1 and every cutoff, low_pass_weights returns (it
\* does not raise) a sequence of length 2 * order - 1, where
\* order = ((window - 1) div 2) + 1, and that length is odd.
C1_OddLength ==
    (pc # "line67" /\ window_hf >= 1) =>
        /\ raised = "none"
        /\ Len(hfw) = 2 * (((window_hf - 1) \div 2) + 1) - 1
        /\ Len(hfw) % 2 = 1

C1_Witness == pc = "line68" /\ window_hf = 4 /\ Len(hfw) = 3

\* C2: for every window >= 1 and every cutoff, the returned weights are
\* symmetric about the centre, weights[i] = weights[len - 1 - i], and the
\* entries at distance k below and above the centre both hold
\* rect(k) * sigma(k), for k in 1..n-1.
C2_Symmetric ==
    (pc = "line68" /\ window_hf >= 1) =>
        LET len == Len(hfw)
            n == (len + 1) \div 2
            k == Arange1(n)
            vals == Product(FirstFactor(k, cutoff_hf), Sigma(k, n))
        IN  /\ \A i \in 1..len : hfw[i] = hfw[len + 1 - i]
            /\ \A j \in 1..(n - 1) : hfw[n - j] = vals[j] /\ hfw[n + j] = vals[j]

C2_Witness ==
    /\ pc = "line68"
    /\ window_hf = 5
    /\ Len(hfw) = 5
    /\ hfw[1] = hfw[5]
    /\ hfw[2] = hfw[4]
    /\ hfw[1] # hfw[2]
    /\ hfw[1] # 0

\* C3: for every window >= 1 and every cutoff, the entry at the middle
\* index (len - 1) div 2 of the returned weights is 2 * cutoff.
C3_Centre ==
    (pc = "line68" /\ window_hf >= 1) =>
        /\ Len(hfw) >= 1
        /\ hfw[((Len(hfw) - 1) \div 2) + 1] = (2 * cutoff_hf.num * Scale) \div cutoff_hf.den

C3_Witness ==
    /\ pc = "line68"
    /\ window_hf = 5
    /\ cutoff_hf = [num |-> 1, den |-> 3]
    /\ hfw[3] = (2 * Scale) \div 3
    /\ hfw[2] # hfw[3]

\* C4: with L = len(weights), the output of a filter pass at cell c and
\* time t is the dot product of the L grid values centred at t with the
\* weights exactly when t has at least L div 2 time steps on each side,
\* and is missing at every other t.
C4_Filter ==
    /\ pc \in After87 =>
           \A c \in Cells : \A t \in 1..TimeExtent :
               lowpass_hf[c][t] =
                   IF FullWindowAt(t, Len(hfw) \div 2) THEN CentredDot(c, t, hfw) ELSE NaN
    /\ pc \in After88 =>
           \A c \in Cells : \A t \in 1..TimeExtent :
               lowpass_lf[c][t] =
                   IF FullWindowAt(t, Len(lfw) \div 2) THEN CentredDot(c, t, lfw) ELSE NaN

C4_Witness ==
    /\ pc = "line88"
    /\ Len(hfw) = 3
    /\ TimeExtent = 4
    /\ lowpass_hf[1][1].nan
    /\ ~lowpass_hf[1][2].nan
    /\ lowpass_hf[1][2].v # 0
    /\ ~lowpass_hf[1][3].nan
    /\ lowpass_hf[1][4].nan

\* C5 as stated: for every window >= 1 and a grid long enough, the filtered
\* grid is missing at exactly the first window div 2 and the last
\* window div 2 time steps.
C5_HalfWindowMargins ==
    /\ (pc \in After87 /\ window_hf >= 1 /\ TimeExtent >= window_hf) =>
           \A c \in Cells : \A t \in 1..TimeExtent :
               lowpass_hf[c][t].nan <=>
                   (t <= window_hf \div 2 \/ t > TimeExtent - (window_hf \div 2))
    /\ (pc \in After88 /\ window_lf >= 1 /\ TimeExtent >= window_lf) =>
           \A c \in Cells : \A t \in 1..TimeExtent :
               lowpass_lf[c][t].nan <=>
                   (t <= window_lf \div 2 \/ t > TimeExtent - (window_lf \div 2))

\* C5 amended: for every window >= 1 and a grid at least len(weights) long,
\* the filtered grid is missing at exactly the first (window - 1) div 2 and
\* the last (window - 1) div 2 time steps, and defined in between.
C5_Margins ==
    /\ (pc \in After87 /\ window_hf >= 1 /\ TimeExtent >= Len(hfw)) =>
           \A c \in Cells : \A t \in 1..TimeExtent :
               lowpass_hf[c][t].nan <=>
                   (t <= (window_hf - 1) \div 2 \/ t > TimeExtent - ((window_hf - 1) \div 2))
    /\ (pc \in After88 /\ window_lf >= 1 /\ TimeExtent >= Len(lfw)) =>
           \A c \in Cells : \A t \in 1..TimeExtent :
               lowpass_lf[c][t].nan <=>
                   (t <= (window_lf - 1) \div 2 \/ t > TimeExtent - ((window_lf - 1) \div 2))

C5_Witness ==
    /\ pc = "line88"
    /\ window_hf = 4
    /\ TimeExtent = 5
    /\ lowpass_hf[1][1].nan
    /\ ~lowpass_hf[1][2].nan
    /\ ~lowpass_hf[1][4].nan
    /\ lowpass_hf[1][5].nan

\* C6 as stated: the result of a cell is the variance, without degrees of
\* freedom correction, of its band-passed values that are not missing, and
\* is missing whenever fewer than 2 of them exist.
C6_MissingBelowTwo ==
    pc = "done" =>
        \A c \in Cells :
            LET N == CountOf(bandpass[c])
                S == SumOf(bandpass[c])
                Q == SumSqOf(bandpass[c])
            IN  IF N < 2
                THEN dvar[c].nan
                ELSE /\ ~dvar[c].nan
                     /\ dvar[c].num = N * (N * Q - S * S)
                     /\ dvar[c].den = N * N * N

\* C6 amended: the result of a cell is the variance, without degrees of
\* freedom correction, of its band-passed values that are not missing; it
\* is missing exactly when none exists, and it is 0 when exactly one exists.
C6_Variance ==
    pc = "done" =>
        \A c \in Cells :
            LET N == CountOf(bandpass[c])
                S == SumOf(bandpass[c])
                Q == SumSqOf(bandpass[c])
            IN  IF N = 0
                THEN dvar[c].nan
                ELSE /\ ~dvar[c].nan
                     /\ dvar[c].num = N * (N * Q - S * S)
                     /\ dvar[c].den = N * N * N
                     /\ N = 1 => dvar[c].num = 0

C6_Witness ==
    /\ pc = "done"
    /\ CountOf(bandpass[1]) = 1
    /\ ~dvar[1].nan
    /\ dvar[1].num = 0
    /\ \E t \in 1..TimeExtent : ~bandpass[1][t].nan /\ bandpass[1][t].v # 0

\* C7 as stated: a call of low_pass_weights with window < 1 or with a cutoff
\* outside (0, 0.5) fails with InvalidParameter and returns no weights.
C7_FailsFast ==
    (/\ pc # "line67"
     /\ \/ window_hf < 1
        \/ cutoff_hf.num <= 0
        \/ 2 * cutoff_hf.num >= cutoff_hf.den) =>
        (pc = "raised" /\ raised = "InvalidParameter")

\* C8: when the time extent is smaller than the longer of the two weight
\* sequences, the run raises nothing, goes on to its end, and every cell of
\* the variance map is missing.
C8_Degenerate ==
    (/\ pc \notin {"line67", "line68"}
     /\ Len(hfw) >= 1
     /\ Len(lfw) >= 1
     /\ TimeExtent < Max(Len(hfw), Len(lfw))) =>
        /\ pc # "raised"
        /\ raised = "none"
        /\ pc = "done" \/ ENABLED Next
        /\ pc = "done" => \A c \in Cells : dvar[c].nan

C8_Witness ==
    /\ pc = "done"
    /\ raised = "none"
    /\ Len(hfw) = 3
    /\ Len(lfw) = 5
    /\ TimeExtent = 4
    /\ \E c \in Cells : \E t \in 1..TimeExtent : ~lowpass_hf[c][t].nan
    /\ \A c \in Cells : dvar[c].nan

\* C9: bandpass[t, cell] is highFiltered - lowFiltered when both are
\* defined and missing when either is missing; so it is defined at t exactly
\* when t has at least max(Lhigh, Llow) div 2 time steps on each side.
C9_Bandpass ==
    pc \in After91 =>
        \A c \in Cells : \A t \in 1..TimeExtent :
            LET a == lowpass_hf[c][t]
                b == lowpass_lf[c][t]
            IN  /\ bandpass[c][t] = IF a.nan \/ b.nan THEN NaN ELSE Num(a.v - b.v)
                /\ ~bandpass[c][t].nan <=>
                       FullWindowAt(t, Max(Len(hfw), Len(lfw)) \div 2)

C9_Witness ==
    /\ pc = "line105"
    /\ Len(hfw) = 5
    /\ Len(lfw) = 3
    /\ TimeExtent = 6
    /\ ~lowpass_lf[1][2].nan
    /\ bandpass[1][2].nan
    /\ ~bandpass[1][3].nan
    /\ bandpass[1][3].v = lowpass_hf[1][3].v - lowpass_lf[1][3].v
    /\ bandpass[1][3].v # 0

\* C10: each pass builds windows as long as the weights it is dotted with,
\* whatever the window parameter, so no pass fails on sizes; and
\* len(low_pass_weights(window, cutoff)) is window when window is odd and
\* window - 1 when window is even.
C10_EffectiveLength ==
    /\ (pc \in After67 /\ window_hf >= 1) =>
           Len(hfw) = IF window_hf % 2 = 1 THEN window_hf ELSE window_hf - 1
    /\ (pc \in After68 /\ window_lf >= 1) =>
           Len(lfw) = IF window_lf % 2 = 1 THEN window_lf ELSE window_lf - 1
    /\ pc \in After87 =>
           \A c \in Cells : \A t \in 1..TimeExtent : Len(windows_hf[c][t]) = Len(hfw)
    /\ pc \in After88 =>
           \A c \in Cells : \A t \in 1..TimeExtent : Len(windows_lf[c][t]) = Len(lfw)
    /\ (window_hf >= 1 /\ window_lf >= 1) => raised = "none"

C10_Witness ==
    /\ pc = "done"
    /\ window_hf = 4
    /\ window_lf = 5
    /\ Len(hfw) = 3
    /\ Len(lfw) = 5
    /\ Len(windows_hf[1][1]) = 3
    /\ Len(windows_lf[1][1]) = 5
====
